---------------------------- MODULE Spec2Model ----------------------------
(***************************************************************************)
(* The grant application form of SCAGO-Tech/RET-form: the validation       *)
(* schema (formSchema), react-hook-form's handleSubmit gate and the submit *)
(* handler onSubmit with its five awaited network steps.                   *)
(*                                                                         *)
(* The repository holds the component twice: src/src/App.tsx (the 5MB      *)
(* variant, called "App" here) and src/unnamed/part_000 (the 25MB variant  *)
(* with isForChild, dateOfBirth, the success panel and resetForm, called   *)
(* "Form" here).  The variable `variant` says which one runs.              *)
(*                                                                         *)
(* Strings that the code takes apart (the applicant name, the file name)   *)
(* are sequences of one-character strings; the others are TLA+ strings.    *)
(***************************************************************************)
EXTENDS Integers, Sequences, FiniteSets, Bags, TLC

VARIABLES
    variant,        \* "App" | "Form": which copy of the component runs
    draft,          \* react-hook-form's current field values (_formValues)
    isSubmitting,   \* useState(false)
    submitError,    \* useState<string | null>(null)
    submitSuccess,  \* useState(false)
    runs,           \* the invocations of handleSubmit(onSubmit) in flight (a bag)
    last,           \* the invocation that ended most recently
    storage,        \* bucket 'support-letters': object name -> content
    db,             \* table grant_applications: the rows inserted so far
    catalog,        \* the database's policies, as the migrations applied so far left them
    probe           \* the last INSERT into storage.objects that was tried, and its verdict

vars == <<variant, draft, isSubmitting, submitError, submitSuccess, runs, last, storage, db,
          catalog, probe>>

(***************************************************************************)
(* Bounds of the model.                                                    *)
(***************************************************************************)
\* Invocations of the submit handler the model lets be in flight at the same
\* time.
MaxInFlight == 2

Variants == {"App", "Form"}

\* JavaScript's undefined (a field that was never registered) and null.
Undefined == "<undefined>"
Null == "<null>"

(***************************************************************************)
(* Characters and the string helpers the handler uses.                     *)
(***************************************************************************)
UpperSeq == <<"A","B","C","D","E","F","G","H","I","J","K","L","M",
              "N","O","P","Q","R","S","T","U","V","W","X","Y","Z">>
LowerSeq == <<"a","b","c","d","e","f","g","h","i","j","k","l","m",
              "n","o","p","q","r","s","t","u","v","w","x","y","z">>
DigitSeq == <<"0","1","2","3","4","5","6","7","8","9">>

Range(s) == {s[i] : i \in DOMAIN s}

\* [a-zA-Z0-9]
IsAlnum(c) == c \in Range(UpperSeq) \cup Range(LowerSeq) \cup Range(DigitSeq)
\* \s
IsSpace(c) == c \in {" ", "\t", "\n"}

\* String.prototype.toLowerCase, one character
ToLowerChar(c) ==
    IF \E i \in DOMAIN UpperSeq : UpperSeq[i] = c
    THEN LowerSeq[CHOOSE i \in DOMAIN UpperSeq : UpperSeq[i] = c]
    ELSE c

ToLowerCase(s) == [i \in DOMAIN s |-> ToLowerChar(s[i])]

\* String.prototype.trim
RECURSIVE TrimStart(_)
TrimStart(s) == IF s # <<>> /\ IsSpace(Head(s)) THEN TrimStart(Tail(s)) ELSE s

RECURSIVE TrimEnd(_)
TrimEnd(s) ==
    IF s # <<>> /\ IsSpace(s[Len(s)]) THEN TrimEnd(SubSeq(s, 1, Len(s) - 1)) ELSE s

Trim(s) == TrimEnd(TrimStart(s))

\* .replace(/[^a-zA-Z0-9\s]/g, '')
StripSpecial(s) == SelectSeq(s, LAMBDA c : IsAlnum(c) \/ IsSpace(c))

\* .replace(/\s+/g, '-'): every maximal run of whitespace becomes one hyphen
RECURSIVE CollapseSpaces(_)
CollapseSpaces(s) ==
    IF s = <<>> THEN <<>>
    ELSE IF IsSpace(Head(s))
         THEN <<"-">> \o CollapseSpaces(TrimStart(s))
         ELSE <<Head(s)>> \o CollapseSpaces(Tail(s))

\* data.applicantName.trim().replace(...).replace(...)
SanitizeName(name) == CollapseSpaces(StripSpecial(Trim(name)))

\* file.name.split('.').pop(): what follows the last '.', the whole name if none
RECURSIVE LastSegment(_)
LastSegment(s) ==
    IF \E i \in DOMAIN s : s[i] = "."
    THEN LastSegment(SubSeq(s, (CHOOSE i \in DOMAIN s : s[i] = ".") + 1, Len(s)))
    ELSE s

FileExt(fname) == ToLowerCase(LastSegment(fname))

SupportLetterSuffix ==
    <<"-","S","u","p","p","o","r","t","-","L","e","t","t","e","r",".">>

\* `${sanitizedName}-Support-Letter.${fileExt}`
FileNameOf(applicantName, fname) ==
    SanitizeName(applicantName) \o SupportLetterSuffix \o FileExt(fname)


(***************************************************************************)
(* formSchema.  A draft is a record of the form's field values; the        *)
(* supportLetter field holds a FileList, here a sequence of files.         *)
(***************************************************************************)
provinces ==
    {"Ontario", "Quebec", "Nova Scotia", "New Brunswick", "Manitoba",
     "British Columbia", "Prince Edward Island", "Saskatchewan", "Alberta",
     "Newfoundland and Labrador"}

\* 5 * 1024 * 1024 in App.tsx, 25 * 1024 * 1024 in the Form variant
MAX_FILE_SIZE(v) == IF v = "App" THEN 5 * 1024 * 1024 ELSE 25 * 1024 * 1024

ACCEPTED_FILE_TYPES == {"application/pdf", "image/jpeg", "image/png"}

\* postalCodeRegex = /^[A-Za-z]\d[A-Za-z][ -]?\d[A-Za-z]\d$/ on the postal
\* codes the model enters: the first three match, the others do not.
PostalCodeSamples == {"K1A 0B1", "k1a-0b1", "K1A0B1", "12345", "K1A  0B1", ""}
postalCodeRegex(s) == s \in {"K1A 0B1", "k1a-0b1", "K1A0B1"}

\* phoneRegex = /^\(?\d{3}\)?[-.\s]?\d{3}[-.\s]?\d{4}$/ on the phone numbers
\* the model enters.
PhoneSamples == {"416-555-0123", "(416) 555-0123", "555-0123", ""}
phoneRegex(s) == s \in {"416-555-0123", "(416) 555-0123"}

\* z.string().email() on the addresses the model enters.
EmailSamples == {"ann@example.org", "ann.example.org", ""}
IsEmail(s) == s \in {"ann@example.org"}

\* z.string().min(n): a string (not undefined) of at least n characters
StringMin(x, n) == x # Undefined /\ Len(x) >= n

\* z.string().optional(): undefined or any string; every value of a text
\* field is one of the two
StringOptional(x) == x = Undefined \/ Len(x) >= 0

\* previousGrantUsage: z.string().optional() in App.tsx;
\* z.string().optional().or(z.string().min(1, ...)) in the Form variant, a
\* union that passes as soon as one of its members does.  Neither reads
\* previousGrant.
PreviousGrantUsageRule(v, d) ==
    IF v = "App"
    THEN StringOptional(d.previousGrantUsage)
    ELSE StringOptional(d.previousGrantUsage) \/ StringMin(d.previousGrantUsage, 1)

\* supportLetter: the four refinements of z.any()
HasFirstFile(files) == Len(files) >= 1
SupportLetterPresent(files) == HasFirstFile(files)
SupportLetterIsFile(files) == HasFirstFile(files) /\ files[1].isFile
\* Mutant: the size ceiling itself is refused
SupportLetterSizeOk_Strict(v, files) ==
    HasFirstFile(files) /\ files[1].size < MAX_FILE_SIZE(v)

SupportLetterSizeOk(v, files) ==
    HasFirstFile(files) /\ files[1].size <= MAX_FILE_SIZE(v)
SupportLetterTypeOk(files) ==
    HasFirstFile(files) /\ files[1].type \in ACCEPTED_FILE_TYPES

SupportLetterRule(v, d) ==
    /\ SupportLetterPresent(d.supportLetter)
    /\ SupportLetterIsFile(d.supportLetter)
    /\ SupportLetterSizeOk(v, d.supportLetter)
    /\ SupportLetterTypeOk(d.supportLetter)

\* Mutant: the attestation is not refined to true
VerifyInformationRule_Any(d) == d.verifyInformation \in BOOLEAN

\* verifyInformation: z.boolean().refine((val) => val === true)
VerifyInformationRule(d) == d.verifyInformation = TRUE

\* The keys of formSchema, per variant
SchemaFields(v) ==
    {"applicantName", "street", "city", "province", "postalCode", "email",
     "phoneNumber", "dateGrantRequested", "fundsUsage", "previousGrant",
     "previousGrantUsage", "supportLetter", "verifyInformation"}
    \cup (IF v = "Form" THEN {"isForChild", "dateOfBirth"} ELSE {})

\* Whether field f of draft d passes its rule in formSchema
FieldRule(v, d, f) ==
    CASE f = "isForChild" -> StringMin(d.isForChild, 1)
      [] f = "applicantName" -> Len(d.applicantName) >= 2
      [] f = "dateOfBirth" -> StringMin(d.dateOfBirth, 1)
      [] f = "street" -> StringMin(d.street, 5)
      [] f = "city" -> StringMin(d.city, 2)
      [] f = "province" -> d.province \in provinces
      [] f = "postalCode" -> postalCodeRegex(d.postalCode)
      [] f = "email" -> IsEmail(d.email)
      [] f = "phoneNumber" -> phoneRegex(d.phoneNumber)
      [] f = "dateGrantRequested" -> StringMin(d.dateGrantRequested, 1)
      [] f = "fundsUsage" -> StringMin(d.fundsUsage, 10)
      [] f = "previousGrant" -> d.previousGrant \in BOOLEAN
      [] f = "previousGrantUsage" -> PreviousGrantUsageRule(v, d)
      [] f = "supportLetter" -> SupportLetterRule(v, d)
      [] f = "verifyInformation" -> VerifyInformationRule(d)

\* zodResolver(formSchema): the fields with an error; empty when the draft
\* validates
formSchema(v, d) == {f \in SchemaFields(v) : ~FieldRule(v, d, f)}

(***************************************************************************)
(* The drafts the model enters.                                            *)
(***************************************************************************)
Chars_AnnLee == <<"A","n","n"," ","L","e","e">>
Chars_letterPDF == <<"l","e","t","t","e","r",".","P","D","F">>

\* A file the user picked: 2 MB of PDF
LetterFile ==
    [name |-> Chars_letterPDF, size |-> 2 * 1024 * 1024,
     type |-> "application/pdf", isFile |-> TRUE, content |-> "letter-1"]

\* The form as first rendered (no defaultValues are given to useForm): text
\* inputs are empty, checkboxes unchecked, the file list empty, the radio
\* "no" checked in the Form variant, and previousGrantUsage is not rendered.
\* App.tsx has no isForChild and no dateOfBirth input.
EmptyDraft(v) ==
    [isForChild |-> IF v = "Form" THEN "no" ELSE Undefined,
     applicantName |-> <<>>,
     dateOfBirth |-> IF v = "Form" THEN "" ELSE Undefined,
     street |-> "", city |-> "", province |-> "", postalCode |-> "",
     email |-> "", phoneNumber |-> "", dateGrantRequested |-> "",
     fundsUsage |-> "", previousGrant |-> FALSE,
     previousGrantUsage |-> Undefined, supportLetter |-> <<>>,
     verifyInformation |-> FALSE]

\* A draft in which every field passes its rule
FilledDraft(v) ==
    [isForChild |-> IF v = "Form" THEN "yes" ELSE Undefined,
     applicantName |-> Chars_AnnLee,
     dateOfBirth |-> IF v = "Form" THEN "2001-02-03" ELSE Undefined,
     street |-> "12 Main St", city |-> "Ottawa", province |-> "Ontario",
     postalCode |-> "K1A 0B1", email |-> "ann@example.org",
     phoneNumber |-> "416-555-0123", dateGrantRequested |-> "2025-01-14",
     fundsUsage |-> "respite care costs", previousGrant |-> FALSE,
     previousGrantUsage |-> Undefined, supportLetter |-> <<LetterFile>>,
     verifyInformation |-> TRUE]

\* The values the model enters into one field
FieldSamples(v, f) ==
    CASE f = "isForChild" -> IF v = "Form" THEN {"yes", "no", ""} ELSE {Undefined}
      [] f = "applicantName" -> {Chars_AnnLee, <<"A">>, <<>>}
      [] f = "dateOfBirth" -> IF v = "Form" THEN {"2001-02-03", ""} ELSE {Undefined}
      [] f = "street" -> {"12 Main St", "12 M", ""}
      [] f = "city" -> {"Ottawa", "X"}
      [] f = "province" -> {"Ontario", "Alberta", "Yukon", ""}
      [] f = "postalCode" -> PostalCodeSamples
      [] f = "email" -> EmailSamples
      [] f = "phoneNumber" -> PhoneSamples
      [] f = "dateGrantRequested" -> {"2025-01-14", ""}
      [] f = "fundsUsage" -> {"respite care costs", "rent 1234", ""}
      [] f = "previousGrant" -> BOOLEAN
      [] f = "previousGrantUsage" -> {Undefined, "", "paid for travel in 2023"}
      [] f = "supportLetter" ->
            {<<>>, <<LetterFile>>,
             <<[LetterFile EXCEPT !.size = MAX_FILE_SIZE(v)]>>,
             <<[LetterFile EXCEPT !.size = MAX_FILE_SIZE(v) + 1]>>,
             <<[LetterFile EXCEPT !.size = MAX_FILE_SIZE(v), !.type = "image/png"]>>,
             <<[LetterFile EXCEPT !.size = 0, !.type = "image/jpeg"]>>,
             <<[LetterFile EXCEPT !.type = "text/plain"]>>,
             <<[LetterFile EXCEPT !.size = 1, !.type = "text/plain"]>>,
             <<[LetterFile EXCEPT !.size = MAX_FILE_SIZE(v) + 1, !.type = "text/plain"]>>,
             <<[LetterFile EXCEPT !.isFile = FALSE]>>}
      [] f = "verifyInformation" -> BOOLEAN

DraftFields == DOMAIN EmptyDraft("Form")

\* Draft d with one field set to one of its samples
OneEdit(v, d) ==
    UNION {{[d EXCEPT ![f] = x] : x \in FieldSamples(v, f)} : f \in DraftFields}

\* The filled draft with at most two fields changed to another sample
TwoEdits(v) == UNION {OneEdit(v, d) : d \in OneEdit(v, FilledDraft(v))}

(***************************************************************************)
(* The backend as the handler sees it.                                     *)
(***************************************************************************)
NoObjects == [n \in {} |-> ""]

\* upload(fileName, file, {upsert: true}): the object is created or replaced
Upsert(st, name, content) ==
    [n \in DOMAIN st \cup {name} |-> IF n = name THEN content ELSE st[n]]

\* list('', {search}): the names the search filter matches, which the
\* storage service compares as a case-insensitive prefix
SearchMatches(search, name) ==
    /\ Len(name) >= Len(search)
    /\ ToLowerCase(SubSeq(name, 1, Len(search))) = ToLowerCase(search)

Listing(st, search) == {n \in DOMAIN st : SearchMatches(search, n)}

PublicUrlPrefix == <<"p","u","b","l","i","c","/","s","u","p","p","o","r","t","-",
                     "l","e","t","t","e","r","s","/">>

\* getPublicUrl(fileName): synchronous, cannot fail
getPublicUrl(fileName) == PublicUrlPrefix \o fileName

\* The messages that reach setSubmitError
UploadFailedMessage == "Failed to upload support letter. Please try again."
VerificationFailedMessage == "File upload verification failed"
GenericErrorMessage == "An error occurred"
RawUploadError == "storage: upload rejected"
RawInsertError == "postgrest: insert rejected"

\* `${data.street}, ${data.city}, ${data.province} ${data.postalCode}`
MailingAddress(d) ==
    d.street \o ", " \o d.city \o ", " \o d.province \o " " \o d.postalCode

\* formPayload
FormPayload(v, d, supportLetterUrl) ==
    [is_for_child |-> IF v = "Form" THEN d.isForChild = "yes" ELSE Undefined,
     applicant_name |-> d.applicantName,
     date_of_birth |-> IF v = "Form" THEN d.dateOfBirth ELSE Undefined,
     mailing_address |-> MailingAddress(d),
     email |-> d.email,
     phone_number |-> d.phoneNumber,
     date_requested |-> d.dateGrantRequested,
     funds_usage |-> d.fundsUsage,
     previous_grant |-> d.previousGrant = TRUE,
     previous_grant_usage |-> d.previousGrantUsage,
     verify_information |-> d.verifyInformation = TRUE,
     support_letter |->
        [file_name |-> IF HasFirstFile(d.supportLetter)
                       THEN d.supportLetter[1].name ELSE <<>>,
         file_url |-> supportLetterUrl]]

\* JSON.stringify of the payload: a key whose value is undefined is left out
\* (previous_grant_usage when the text area was never rendered; App.tsx's
\* payload has no is_for_child and no date_of_birth)
JsonStringify(v, obj) ==
    LET absent ==
            {k \in {"is_for_child", "date_of_birth"} : v = "App"}
            \cup {k \in {"previous_grant_usage"} : obj[k] = Undefined}
    IN  [k \in DOMAIN obj \ absent |-> obj[k]]

\* body: JSON.stringify(formPayload) of the two fetch calls
MakeBody(v, r) == JsonStringify(v, FormPayload(v, r.data, r.supportLetterUrl))
RetoolBody(v, r) == JsonStringify(v, FormPayload(v, r.data, r.supportLetterUrl))

\* Mutant: the row is inserted without the attachment's URL
InsertRow_NoUrl(v, d, supportLetterUrl) ==
    [is_for_child |-> IF v = "Form" THEN d.isForChild = "yes" ELSE Undefined,
     applicant_name |-> d.applicantName,
     date_of_birth |-> IF v = "Form" THEN d.dateOfBirth ELSE Undefined,
     mailing_address |-> MailingAddress(d),
     email |-> d.email,
     phone_number |-> d.phoneNumber,
     date_requested |-> d.dateGrantRequested,
     funds_usage |-> d.fundsUsage,
     previous_grant |-> d.previousGrant = TRUE,
     previous_grant_usage |-> d.previousGrantUsage,
     verify_information |-> d.verifyInformation = TRUE,
     support_letter_url |-> <<>>]

\* The keys of the row as the insert sends it (the request body is JSON)
InsertKeys(v, row) == DOMAIN JsonStringify(v, row)

\* The object given to supabase.from('grant_applications').insert([...])
InsertRow(v, d, supportLetterUrl) ==
    [is_for_child |-> IF v = "Form" THEN d.isForChild = "yes" ELSE Undefined,
     applicant_name |-> d.applicantName,
     date_of_birth |-> IF v = "Form" THEN d.dateOfBirth ELSE Undefined,
     mailing_address |-> MailingAddress(d),
     email |-> d.email,
     phone_number |-> d.phoneNumber,
     date_requested |-> d.dateGrantRequested,
     funds_usage |-> d.fundsUsage,
     previous_grant |-> d.previousGrant = TRUE,
     previous_grant_usage |-> d.previousGrantUsage,
     verify_information |-> d.verifyInformation = TRUE,
     support_letter_url |-> supportLetterUrl]

(***************************************************************************)
(* The two migrations, statement by statement, and row level security on   *)
(* storage.objects.  A policy is [table, name, cmd, role, check]; `check`  *)
(* names its WITH CHECK / USING expression, which PolicyCheck evaluates.   *)
(***************************************************************************)
UploadPolicyName == "Authenticated users can upload support letters"

\* The columns of CREATE TABLE grant_applications: name, NOT NULL (PRIMARY
\* KEY included), DEFAULT
Column(name, notNull, hasDefault) ==
    [name |-> name, notNull |-> notNull, hasDefault |-> hasDefault]

GrantApplicationsColumns ==
    {Column("id", TRUE, TRUE),
     Column("applicant_name", TRUE, FALSE),
     Column("mailing_address", TRUE, FALSE),
     Column("email", TRUE, FALSE),
     Column("phone_number", TRUE, FALSE),
     Column("date_requested", TRUE, FALSE),
     Column("funds_usage", FALSE, FALSE),
     Column("previous_grant", FALSE, TRUE),
     Column("previous_grant_usage", FALSE, FALSE),
     Column("verify_information", TRUE, TRUE),
     Column("created_at", FALSE, TRUE),
     Column("user_id", FALSE, FALSE)}

\* 20250112022756_steep_mud.sql, then 20250114043432_soft_sunset.sql
Migrations ==
    <<[op |-> "create_table", table |-> "grant_applications",
       columns |-> GrantApplicationsColumns],
      [op |-> "enable_rls", table |-> "grant_applications"],
      [op |-> "create_policy",
       policy |-> [table |-> "grant_applications",
                   name |-> "Users can insert their own applications",
                   cmd |-> "INSERT", role |-> "authenticated",
                   check |-> "auth.uid() = user_id"]],
      [op |-> "create_policy",
       policy |-> [table |-> "grant_applications",
                   name |-> "Users can read their own applications",
                   cmd |-> "SELECT", role |-> "authenticated",
                   check |-> "auth.uid() = user_id"]],
      [op |-> "insert_bucket", id |-> "support-letters"],
      [op |-> "enable_rls", table |-> "storage.objects"],
      [op |-> "create_policy",
       policy |-> [table |-> "storage.objects", name |-> UploadPolicyName,
                   cmd |-> "INSERT", role |-> "authenticated",
                   check |-> "bucket_id = 'support-letters' AND (storage.foldername(name))[1] = auth.uid()::text"]],
      [op |-> "drop_policy_if_exists", table |-> "storage.objects",
       name |-> UploadPolicyName],
      [op |-> "create_policy",
       policy |-> [table |-> "storage.objects", name |-> UploadPolicyName,
                   cmd |-> "INSERT", role |-> "authenticated",
                   check |-> "bucket_id = 'support-letters' AND auth.uid() IS NOT NULL"]]>>

\* The database before the first migration: the storage schema is there, no
\* policy of this repository is
BaseCatalog ==
    [step |-> 0, failed |-> FALSE, tables |-> {"storage.objects"}, rls |-> {},
     buckets |-> {}, policies |-> {}, columns |-> {}]

\* One statement applied.  CREATE POLICY fails when the table has a policy of
\* that name; the other statements are IF NOT EXISTS / ON CONFLICT DO NOTHING /
\* IF EXISTS forms, or idempotent
ApplyStatement(cat, st) ==
    LET done == [cat EXCEPT !.step = @ + 1]
    IN  CASE st.op = "create_table" ->
                IF st.table \in cat.tables THEN done
                ELSE [done EXCEPT
                        !.tables = @ \cup {st.table},
                        !.columns = @ \cup {[table |-> st.table, column |-> c] :
                                                c \in st.columns}]
          [] st.op = "enable_rls" -> [done EXCEPT !.rls = @ \cup {st.table}]
          [] st.op = "insert_bucket" -> [done EXCEPT !.buckets = @ \cup {st.id}]
          [] st.op = "drop_policy_if_exists" ->
                [done EXCEPT !.policies =
                    {q \in @ : ~(q.table = st.table /\ q.name = st.name)}]
          [] st.op = "create_policy" ->
                IF \E q \in cat.policies :
                        q.table = st.policy.table /\ q.name = st.policy.name
                THEN [cat EXCEPT !.failed = TRUE]
                ELSE [done EXCEPT !.policies = @ \cup {st.policy}]

\* The statements from position i on, applied in order
RECURSIVE ApplyFrom(_, _)
ApplyFrom(cat, i) ==
    IF i > Len(Migrations) \/ cat.failed THEN cat
    ELSE ApplyFrom(ApplyStatement(cat, Migrations[i]), i + 1)

\* The database the form runs against: both migrations applied
Migrated == ApplyFrom(BaseCatalog, 1)

\* An INSERT into storage.objects: who asks (role, uid: auth.uid(), Null for
\* a caller who is not signed in), the bucket, and the object's name as its
\* path segments
Callers ==
    {[role |-> "anon", uid |-> Null],
     [role |-> "authenticated", uid |-> "u1"],
     [role |-> "authenticated", uid |-> "u2"]}

ObjectNames ==
    {<<"Ann-Lee-Support-Letter.pdf">>,
     <<"u1", "Ann-Lee-Support-Letter.pdf">>,
     <<"u2", "Ann-Lee-Support-Letter.pdf">>,
     <<"u1", "2025", "Ann-Lee-Support-Letter.pdf">>}

UploadRequests ==
    {[caller |-> c, bucket |-> b, name |-> n] :
        c \in Callers, b \in {"support-letters", "avatars"}, n \in ObjectNames}

\* (storage.foldername(name))[1]: the first folder of the path, NULL when the
\* object lies in the bucket's root
FirstFolder(name) == IF Len(name) >= 2 THEN name[1] ELSE Null

\* The WITH CHECK expression of a policy on storage.objects, for one request;
\* a comparison with NULL is not true
PolicyCheck(check, req) ==
    CASE check = "bucket_id = 'support-letters' AND (storage.foldername(name))[1] = auth.uid()::text" ->
            /\ req.bucket = "support-letters"
            /\ FirstFolder(req.name) # Null
            /\ req.caller.uid # Null
            /\ FirstFolder(req.name) = req.caller.uid
      [] check = "bucket_id = 'support-letters' AND auth.uid() IS NOT NULL" ->
            /\ req.bucket = "support-letters"
            /\ req.caller.uid # Null
      [] OTHER -> FALSE

\* Row level security: with it enabled on the table, the insert passes when
\* some policy for INSERT that applies to the caller's role has a true check
InsertPermitted(cat, req) ==
    \/ "storage.objects" \notin cat.rls
    \/ \E q \in cat.policies :
            /\ q.table = "storage.objects"
            /\ q.cmd = "INSERT"
            /\ q.role = req.caller.role
            /\ PolicyCheck(q.check, req)

NoProbe == [at |-> 0, req |-> [caller |-> [role |-> "anon", uid |-> Null],
                               bucket |-> "", name |-> <<>>],
            verdict |-> "none"]

(***************************************************************************)
(* One invocation of handleSubmit(onSubmit).                               *)
(*   pc      where it stands: "idle" (none yet), "validating" (the         *)
(*           resolver is awaited), the awaited call ("upload", "list",     *)
(*           "make", "makeText", "retool", "retoolText", "insert"), "done" *)
(*   data    the field values handleSubmit took (onSubmit's argument)      *)
(*   ops     the network operations issued so far, in order                *)
(*   out     the network operations issued and not yet returned            *)
(*   checkData  the object names the listing returned                      *)
(*   makeRes, retoolRes  "none" | "ok" | "failed": how the webhook call     *)
(*           ended ("failed": it threw, or answered with a non-success     *)
(*           status)                                                       *)
(*   insertRes  "none" | "ok" | "Error" | "object": no answer yet, no      *)
(*           error, or the kind of error object the insert returned        *)
(*   result  "none" | "invalid" | "failed" | "success"                     *)
(*   caught  what the invocation gave to setSubmitError in its catch       *)
(***************************************************************************)
NetworkOps == <<"upload", "list", "make", "retool", "insert">>

IdleRun(v) ==
    [pc |-> "idle", data |-> EmptyDraft(v), errors |-> {}, ops |-> <<>>,
     out |-> {}, fileName |-> <<>>, supportLetterUrl |-> <<>>,
     uploadRes |-> "none", checkRes |-> "none", checkData |-> {},
     makeRes |-> "none",
     retoolRes |-> "none", insertRes |-> "none", result |-> "none",
     caught |-> Null, onSuccessCalls |-> 0, inserted |-> 0]

\* The call is made: the handler is suspended on it
Issue(r, op) ==
    [r EXCEPT !.pc = op, !.ops = Append(@, op), !.out = @ \cup {op}]

\* Mutant: the call is not awaited, the handler goes on while it is outstanding
Settle_NotAwaited(r, op) == r

\* The awaited call settled
Settle(r, op) == [r EXCEPT !.out = @ \ {op}]

\* The button is rendered with disabled={isSubmitting}; the Form variant
\* renders the form only while submitSuccess is false
FormRendered == variant = "App" \/ ~submitSuccess
CanSubmit == FormRendered /\ ~isSubmitting

InFlight == BagToSet(runs)
Replace(r, r2) == (runs (-) SetToBag({r})) (+) SetToBag({r2})
Remove(r) == runs (-) SetToBag({r})

(***************************************************************************)
(* The decisions onSubmit takes.                                           *)
(***************************************************************************)
\* if (data.supportLetter && data.supportLetter[0])
HasSupportLetter(d) == HasFirstFile(d.supportLetter)

\* Mutant: the upload's error is not looked at
UploadFailed_Never(outcome) == FALSE

\* if (uploadError) throw uploadError
UploadFailed(outcome) == outcome = "error"

\* Mutant: an empty listing passes the verification
VerificationFailed_ErrorOnly(checkError, checkData) == checkError

\* if (checkError || !checkData?.length) throw ...
VerificationFailed(checkError, checkData) == checkError \/ Cardinality(checkData) = 0

\* Mutant: the inner catch rethrows what it caught
StorageCatchMessage_Raw(raw) == raw

\* The inner catch: whatever the upload block threw becomes this message
StorageCatchMessage(raw) == UploadFailedMessage

\* Mutant: the outer catch never shows the error's own message
OuterCatchMessage_AlwaysGeneric(isErrorInstance, message) == GenericErrorMessage

\* The outer catch: error instanceof Error ? error.message : 'An error occurred'
OuterCatchMessage(isErrorInstance, message) ==
    IF isErrorInstance THEN message ELSE GenericErrorMessage

\* if (!makeResponse.ok) console.warn(..., await makeResponse.text()):
\* only the Form variant reads the response
ReadsResponseText(v, outcome) == v = "Form" /\ outcome = "not_ok"

\* Mutant: the insert's error is not looked at
InsertFailed_Never(insertError) == FALSE

\* if (insertError) throw insertError.  insertError is "none", "Error" (an
\* Error instance carrying the backend's message) or "object" (a plain
\* object carrying it)
InsertFailed(insertError) == insertError # "none"

\* The first await of onSubmit's body: the upload when there is a file, the
\* Make webhook otherwise (supportLetterUrl stays '')
StartOnSubmit(r) ==
    IF HasSupportLetter(r.data)
    THEN Issue([r EXCEPT !.fileName =
                    FileNameOf(r.data.applicantName, r.data.supportLetter[1].name)],
               "upload")
    ELSE Issue(r, "make")

\* How a webhook call's outcome ("ok", "not_ok", "threw") is kept in the run
WebhookRes(outcome) == IF outcome = "ok" THEN "ok" ELSE "failed"

\* Mutant: a webhook call that throws ends the submission
AfterWebhook_Abort(v, r, outcome, textStep, nextOp) ==
    IF outcome = "threw"
    THEN [r EXCEPT !.pc = "done", !.result = "failed"]
    ELSE IF v = "Form" /\ outcome = "not_ok"
         THEN [r EXCEPT !.pc = textStep]
         ELSE Issue(r, nextOp)

\* After a webhook call: the failure is logged, the next call is made
AfterWebhook(v, r, outcome, textStep, nextOp) ==
    IF ReadsResponseText(v, outcome)
    THEN [r EXCEPT !.pc = textStep]
    ELSE Issue(r, nextOp)

\* Mutant: after the response text was read the same webhook is called again
AfterWebhookText_Retry(r, nextOp) == Issue(r, r.ops[Len(r.ops)])

\* After the response text was read, or the read threw into the same catch
AfterWebhookText(r, nextOp) == Issue(r, nextOp)

(***************************************************************************)
(* Actions.                                                                *)
(***************************************************************************)
\* The user changes the form's values
Edit(d) ==
    /\ FormRendered
    /\ d # draft
    /\ draft' = d
    /\ UNCHANGED <<variant, catalog, probe, isSubmitting, submitError, submitSuccess, runs, last,
                   storage, db>>

\* The submit event: handleSubmit takes a copy of the field values and awaits
\* the resolver
Trigger ==
    /\ CanSubmit
    /\ BagCardinality(runs) < MaxInFlight
    /\ runs' = runs (+) SetToBag({[IdleRun(variant) EXCEPT
                                    !.pc = "validating", !.data = draft]})
    /\ UNCHANGED <<variant, catalog, probe, draft, isSubmitting, submitError, submitSuccess, last,
                   storage, db>>

\* The resolver answered.  With errors handleSubmit ends without calling
\* onSubmit; without, onSubmit runs to its first await:
\* setIsSubmitting(true); setSubmitError(null); ... await upload
Validate(r) ==
    LET errs == formSchema(variant, r.data)
    IN  /\ r.pc = "validating"
        /\ IF errs # {}
           THEN /\ runs' = Remove(r)
                /\ last' = [r EXCEPT !.pc = "done", !.result = "invalid",
                                     !.errors = errs]
                /\ UNCHANGED <<isSubmitting, submitError>>
           ELSE /\ runs' = Replace(r, StartOnSubmit(r))
                /\ isSubmitting' = TRUE
                /\ submitError' = Null
                /\ UNCHANGED last
        /\ UNCHANGED <<variant, catalog, probe, draft, submitSuccess, storage, db>>

\* catch (error) { setSubmitError(...) } finally { setIsSubmitting(false) };
\* r is the invocation as it was suspended, r2 as it is when it throws
Fatal(r, r2, isErrorInstance, message) ==
    /\ runs' = Remove(r)
    /\ last' = [r2 EXCEPT !.pc = "done", !.result = "failed",
                          !.caught = OuterCatchMessage(isErrorInstance, message)]
    /\ submitError' = OuterCatchMessage(isErrorInstance, message)
    /\ isSubmitting' = FALSE
    /\ UNCHANGED <<variant, catalog, probe, draft, submitSuccess, db>>

\* The next await is reached
Continue(r, r2) ==
    /\ runs' = Replace(r, r2)
    /\ UNCHANGED <<variant, catalog, probe, draft, isSubmitting, submitError, submitSuccess, last, db>>

\* The upload returned: with an error the submission ends; without, the
\* public URL is taken and the listing is asked for
UploadReturns(r, outcome) ==
    LET r2 == [Settle(r, "upload") EXCEPT !.uploadRes = outcome]
    IN  /\ r.pc = "upload"
        /\ IF UploadFailed(outcome)
           THEN /\ Fatal(r, r2, TRUE, StorageCatchMessage(RawUploadError))
                /\ UNCHANGED storage
           ELSE /\ storage' = Upsert(storage, r.fileName, r.data.supportLetter[1].content)
                /\ Continue(r, Issue([r2 EXCEPT !.supportLetterUrl =
                                            getPublicUrl(r.fileName)], "list"))

\* The listing returned: an error or no entry ends the submission as an
\* upload failure; otherwise the payload is built and sent to Make
ListReturns(r, checkError, checkData) ==
    LET r2 == [Settle(r, "list") EXCEPT
                !.checkRes = IF checkError THEN "error"
                             ELSE IF checkData = {} THEN "empty" ELSE "found",
                !.checkData = checkData]
    IN  /\ r.pc = "list"
        /\ checkData \subseteq Listing(storage, r.fileName)
        /\ checkError => checkData = {}
        /\ IF VerificationFailed(checkError, checkData)
           THEN Fatal(r, r2, TRUE, StorageCatchMessage(VerificationFailedMessage))
           ELSE Continue(r, Issue(r2, "make"))
        /\ UNCHANGED storage

\* fetch(Make) returned or threw
MakeReturns(r, outcome) ==
    /\ r.pc = "make"
    /\ Continue(r, AfterWebhook(variant, [Settle(r, "make") EXCEPT !.makeRes = WebhookRes(outcome)],
                                outcome, "makeText", "retool"))
    /\ UNCHANGED storage

\* await makeResponse.text() returned or threw (Form variant)
MakeTextReturns(r, threw) ==
    /\ r.pc = "makeText"
    /\ Continue(r, AfterWebhookText(r, "retool"))
    /\ UNCHANGED storage

\* fetch(Retool) returned or threw
RetoolReturns(r, outcome) ==
    /\ r.pc = "retool"
    /\ Continue(r, AfterWebhook(variant, [Settle(r, "retool") EXCEPT !.retoolRes = WebhookRes(outcome)],
                                outcome, "retoolText", "insert"))
    /\ UNCHANGED storage

\* await retoolResponse.text() returned or threw (Form variant)
RetoolTextReturns(r, threw) ==
    /\ r.pc = "retoolText"
    /\ Continue(r, AfterWebhookText(r, "insert"))
    /\ UNCHANGED storage

\* The insert returned.  Without an error: setSubmitSuccess(true);
\* onSuccess?.(); finally setIsSubmitting(false).  With one, it is thrown
\* to the outer catch.
InsertReturns(r, insertError) ==
    LET r2 == [Settle(r, "insert") EXCEPT
                !.insertRes = IF insertError = "none" THEN "ok" ELSE insertError]
    IN  /\ r.pc = "insert"
        /\ IF InsertFailed(insertError)
           THEN Fatal(r, r2, insertError = "Error", RawInsertError)
           ELSE /\ db' = db \cup {InsertRow(variant, r.data, r.supportLetterUrl)}
                /\ runs' = Remove(r)
                /\ last' = [r2 EXCEPT !.pc = "done", !.result = "success",
                                      !.inserted = @ + 1, !.onSuccessCalls = @ + 1]
                /\ submitSuccess' = TRUE
                /\ isSubmitting' = FALSE
                /\ UNCHANGED <<variant, catalog, probe, draft, submitError>>
        /\ UNCHANGED storage

\* resetForm, the button of the Form variant's success panel
resetForm ==
    /\ variant = "Form"
    /\ submitSuccess
    /\ submitSuccess' = FALSE
    /\ draft' = EmptyDraft(variant)
    /\ submitError' = Null
    /\ UNCHANGED <<variant, catalog, probe, isSubmitting, runs, last, storage, db>>

(***************************************************************************)
(* The specifications.                                                     *)
(***************************************************************************)
\* The drafts the user's edits produce in Spec
Drafts(v) ==
    {FilledDraft(v), [FilledDraft(v) EXCEPT !.verifyInformation = FALSE]}

WebhookOutcomes == {"ok", "not_ok", "threw"}
InsertErrors == {"none", "Error", "object"}

Init ==
    /\ variant \in Variants
    /\ draft = EmptyDraft(variant)
    /\ isSubmitting = FALSE
    /\ submitError = Null
    /\ submitSuccess = FALSE
    /\ runs = EmptyBag
    /\ last = IdleRun(variant)
    /\ storage = NoObjects
    /\ db = {}
    /\ catalog = Migrated
    /\ probe = NoProbe

DoEdit == \E d \in Drafts(variant) : Edit(d)
DoValidate == \E r \in InFlight : Validate(r)
DoUploadReturns == \E r \in InFlight, outcome \in {"ok", "error"} : UploadReturns(r, outcome)
DoListReturns ==
    \E r \in InFlight, checkError \in BOOLEAN :
        \E checkData \in SUBSET Listing(storage, r.fileName) :
            ListReturns(r, checkError, checkData)
DoMakeReturns == \E r \in InFlight, outcome \in WebhookOutcomes : MakeReturns(r, outcome)
DoMakeTextReturns == \E r \in InFlight, threw \in BOOLEAN : MakeTextReturns(r, threw)
DoRetoolReturns == \E r \in InFlight, outcome \in WebhookOutcomes : RetoolReturns(r, outcome)
DoRetoolTextReturns == \E r \in InFlight, threw \in BOOLEAN : RetoolTextReturns(r, threw)
DoInsertReturns == \E r \in InFlight, e \in InsertErrors : InsertReturns(r, e)

Next ==
    \/ DoEdit
    \/ Trigger
    \/ DoValidate
    \/ DoUploadReturns
    \/ DoListReturns
    \/ DoMakeReturns
    \/ DoMakeTextReturns
    \/ DoRetoolReturns
    \/ DoRetoolTextReturns
    \/ DoInsertReturns
    \/ resetForm

Spec == Init /\ [][Next]_vars

\* Validation on its own: the form holds any draft of TwoEdits when the
\* submit event arrives, and one invocation runs at a time.
InitV ==
    /\ variant \in Variants
    /\ draft \in TwoEdits(variant)
    /\ isSubmitting = FALSE
    /\ submitError = Null
    /\ submitSuccess = FALSE
    /\ runs = EmptyBag
    /\ last = IdleRun(variant)
    /\ storage = NoObjects
    /\ db = {}
    /\ catalog = Migrated
    /\ probe = NoProbe

TriggerAlone == runs = EmptyBag /\ Trigger

NextV ==
    \/ TriggerAlone
    \/ DoValidate
    \/ DoUploadReturns
    \/ DoListReturns
    \/ DoMakeReturns
    \/ DoMakeTextReturns
    \/ DoRetoolReturns
    \/ DoRetoolTextReturns
    \/ DoInsertReturns
    \/ resetForm

SpecV == InitV /\ [][NextV]_vars

\* Several applications one after the other, by applicants whose names give
\* the same object name or names that differ in case only: the filled draft;
\* the same name with another letter and another phone number; the name in
\* lower case.
Chars_annlee == <<"a","n","n"," ","l","e","e">>

DraftsO(v) ==
    {FilledDraft(v),
     [FilledDraft(v) EXCEPT
        !.phoneNumber = "(416) 555-0123",
        !.supportLetter = <<[LetterFile EXCEPT !.content = "letter-2"]>>],
     [FilledDraft(v) EXCEPT
        !.applicantName = Chars_annlee,
        !.supportLetter = <<[LetterFile EXCEPT !.content = "letter-3"]>>]}

EditO == \E d \in DraftsO(variant) : Edit(d)
DoUploadOk == \E r \in InFlight : UploadReturns(r, "ok")
DoMakeOk == \E r \in InFlight : MakeReturns(r, "ok")
DoRetoolOk == \E r \in InFlight : RetoolReturns(r, "ok")

NextO ==
    \/ EditO
    \/ TriggerAlone
    \/ DoValidate
    \/ DoUploadOk
    \/ DoListReturns
    \/ DoMakeOk
    \/ DoRetoolOk
    \/ DoInsertReturns
    \/ resetForm

SpecO == Init /\ [][NextO]_vars

\* The next statement of the migrations is run
Migrate ==
    /\ ~catalog.failed
    /\ catalog.step < Len(Migrations)
    /\ catalog' = ApplyStatement(catalog, Migrations[catalog.step + 1])
    /\ UNCHANGED <<variant, draft, isSubmitting, submitError, submitSuccess, runs,
                   last, storage, db, probe>>

\* A client tries to insert an object
TryUpload(req) ==
    /\ probe' = [at |-> catalog.step, req |-> req,
                 verdict |-> IF InsertPermitted(catalog, req)
                             THEN "permitted" ELSE "rejected"]
    /\ UNCHANGED <<variant, draft, isSubmitting, submitError, submitSuccess, runs,
                   last, storage, db, catalog>>

DoTryUpload == \E req \in UploadRequests : TryUpload(req)

\* The migrations on their own, from the database before the first one
InitM ==
    /\ variant \in Variants
    /\ draft = EmptyDraft(variant)
    /\ isSubmitting = FALSE
    /\ submitError = Null
    /\ submitSuccess = FALSE
    /\ runs = EmptyBag
    /\ last = IdleRun(variant)
    /\ storage = NoObjects
    /\ db = {}
    /\ catalog = BaseCatalog
    /\ probe = NoProbe

NextM ==
    \/ Migrate
    \/ DoTryUpload

SpecM == InitM /\ [][NextM]_vars

(***************************************************************************)
(* Properties.                                                             *)
(***************************************************************************)
\* The invocations the state knows of: those in flight and the last ended
AllRuns == InFlight \cup {last}

Issued(r, op) == op \in Range(r.ops)

\* This step ends invocation r, which stood at pc
EndsAt(r, pc) == r \in InFlight /\ r.pc = pc /\ runs' = Remove(r)

\* C1: an insert is issued only by a submission whose upload returned
\* without error and whose listing returned without error and non-empty;
\* never by one whose upload or verification failed or is still outstanding.
C1_InsertOnlyAfterVerifiedUpload ==
    \A r \in AllRuns :
        Issued(r, "insert") =>
            /\ Issued(r, "upload") /\ Issued(r, "list")
            /\ r.uploadRes = "ok"
            /\ r.checkRes = "found"
            /\ r.out \cap {"upload", "list"} = {}
            /\ r.supportLetterUrl = getPublicUrl(r.fileName)

C1_Witness ==
    \E r \in InFlight : r.pc = "insert" /\ Issued(r, "insert") /\ r.checkRes = "found"

\* C2: a webhook call that fails (it throws, or answers with a non-success
\* status) does not end the submission: the next call is made, the insert is
\* attempted, and when the insert succeeds the submission ends in success
\* with the callback fired and nothing given to the error slot.
C2_WebhookFailureSwallowed ==
    \A r \in AllRuns :
        /\ r.makeRes = "failed" =>
                /\ r.pc = "makeText" \/ Issued(r, "retool")
                /\ r.pc = "done" => Issued(r, "insert")
        /\ r.retoolRes = "failed" =>
                /\ r.pc = "retoolText" \/ Issued(r, "insert")
        /\ (r.makeRes = "failed" \/ r.retoolRes = "failed") /\ r.pc = "done" =>
                /\ r.insertRes # "none"
                /\ r.insertRes = "ok" =>
                        /\ r.result = "success"
                        /\ r.onSuccessCalls = 1
                        /\ r.caught = Null

C2_Witness ==
    /\ last.result = "success"
    /\ last.makeRes = "failed"
    /\ last.retoolRes = "ok"
    /\ last.onSuccessCalls = 1
    /\ submitSuccess
    /\ submitError = Null

\* What an invocation whose upload returned an error looks like, and what
\* the step that ends it does
C3_UploadErrorState ==
    \A r \in AllRuns :
        r.uploadRes = "error" =>
            /\ r.pc = "done"
            /\ r.result = "failed"
            /\ r.ops = <<"upload">>
            /\ r.out = {}
            /\ r.caught = UploadFailedMessage
            /\ r.caught # RawUploadError
            /\ r.onSuccessCalls = 0
            /\ r.inserted = 0

C3_UploadErrorStep ==
    (\E r \in InFlight : EndsAt(r, "upload")) =>
        /\ submitError' = UploadFailedMessage
        /\ submitSuccess' = submitSuccess
        /\ draft' = draft
        /\ db' = db
        /\ storage' = storage

C4_VerificationFailureIsFatal ==
    \A r \in AllRuns :
        r.checkRes \in {"error", "empty"} =>
            /\ r.pc = "done"
            /\ r.result = "failed"
            /\ r.ops = <<"upload", "list">>
            /\ r.out = {}
            /\ r.caught = UploadFailedMessage
            /\ r.makeRes = "none" /\ r.retoolRes = "none" /\ r.insertRes = "none"
            /\ r.onSuccessCalls = 0
            /\ r.inserted = 0

C4_Witness ==
    /\ last.checkRes = "empty"
    /\ last.uploadRes = "ok"
    /\ last.pc = "done"
    /\ submitError = UploadFailedMessage

C5_InsertErrorState ==
    \A r \in AllRuns :
        r.insertRes \in {"Error", "object"} =>
            /\ r.pc = "done"
            /\ r.result = "failed"
            /\ r.caught = IF r.insertRes = "Error" THEN RawInsertError
                          ELSE GenericErrorMessage
            /\ r.onSuccessCalls = 0
            /\ r.inserted = 0

C5_InsertErrorStep ==
    \A r \in InFlight :
        EndsAt(r, "insert") /\ last'.insertRes \in {"Error", "object"} =>
            /\ submitError' = last'.caught
            /\ submitSuccess' = submitSuccess
            /\ draft' = draft
            /\ db' = db
            /\ storage' = storage
            /\ r.fileName \in DOMAIN storage'

C6_SuccessOnlyAfterInsert ==
    /\ \A r \in AllRuns :
        /\ r.onSuccessCalls \in {0, 1}
        /\ r.onSuccessCalls = 1 <=> r.result = "success"
        /\ r.result = "success" <=> (r.pc = "done" /\ r.insertRes = "ok")
        /\ r.insertRes = "ok" => r.inserted = 1 /\ "insert" \notin r.out
        /\ r.result \in {"failed", "invalid"} => r.onSuccessCalls = 0
    /\ submitSuccess => db # {}

C6_Witness ==
    /\ last.result = "success"
    /\ last.onSuccessCalls = 1
    /\ submitSuccess

\* The rules of the form's fields, one by one (previousGrant is a checkbox
\* and previousGrantUsage a text area: their rules reject no value)
C7_PassesEveryRule(v, d) ==
    /\ Len(d.applicantName) >= 2
    /\ Len(d.street) >= 5
    /\ Len(d.city) >= 2
    /\ d.province \in provinces
    /\ postalCodeRegex(d.postalCode)
    /\ IsEmail(d.email)
    /\ phoneRegex(d.phoneNumber)
    /\ d.dateGrantRequested # ""
    /\ Len(d.fundsUsage) >= 10
    /\ Len(d.supportLetter) >= 1
    /\ d.supportLetter # <<>> =>
            /\ d.supportLetter[1].isFile
            /\ d.supportLetter[1].size <= MAX_FILE_SIZE(v)
            /\ d.supportLetter[1].type \in {"application/pdf", "image/jpeg", "image/png"}
    /\ d.verifyInformation
    /\ v = "Form" => d.isForChild # "" /\ d.dateOfBirth # ""

\* What an invocation looks like once the resolver has answered, and what
\* the step that ends a rejected one does
C7_InvalidDraftState ==
    \A r \in AllRuns :
        r.pc \notin {"idle", "validating"} =>
            IF C7_PassesEveryRule(variant, r.data)
            THEN r.result # "invalid" /\ r.ops # <<>>
            ELSE /\ r.pc = "done"
                 /\ r.result = "invalid"
                 /\ r.errors # {}
                 /\ r.ops = <<>>
                 /\ r.out = {}

C7_InvalidDraftStep ==
    (\E r \in InFlight : EndsAt(r, "validating")) =>
        /\ isSubmitting' = isSubmitting
        /\ submitError' = submitError
        /\ submitSuccess' = submitSuccess
        /\ storage' = storage
        /\ db' = db

\* C7: a submit attempt on a draft in which a field fails its rule, or the
\* attestation is not true, issues no network call and leaves isSubmitting,
\* submitError and submitSuccess as they were; the handler runs only on a
\* draft that passes every rule.
C7_InvalidDraftIsNoOp == []C7_InvalidDraftState /\ [][C7_InvalidDraftStep]_vars

C7_Witness ==
    /\ last.result = "invalid"
    /\ last.errors = {"verifyInformation"}
    /\ last.ops = <<>>
    /\ ~isSubmitting

\* C8 as claimed: with previousGrant true and previousGrantUsage empty or
\* absent, validation fails with an error on previousGrantUsage and the
\* submission is blocked; with previousGrant false, previousGrantUsage is
\* accepted whatever it holds.
C8_Claimed_UsageRequiredIffPreviousGrant ==
    \A r \in AllRuns :
        r.pc \notin {"idle", "validating"} =>
            /\ (r.data.previousGrant /\ r.data.previousGrantUsage \in {"", Undefined}) =>
                    /\ r.result = "invalid"
                    /\ "previousGrantUsage" \in r.errors
                    /\ r.ops = <<>>
            /\ ~r.data.previousGrant => "previousGrantUsage" \notin r.errors

\* The invocations in which onSubmit has started and has not reached the end
\* of its finally block
OnSubmitRuns == [r \in {x \in InFlight : x.pc # "validating"} |-> runs[r]]

\* C9 as claimed: at most one run of onSubmit is in flight at any time.
C9_Claimed_OneRunInFlight == BagCardinality(OnSubmitRuns) <= 1

IsPrefix(a, b) == Len(a) <= Len(b) /\ a = SubSeq(b, 1, Len(a))

\* C10: within one submission the network operations are issued in the
\* order upload, list, Make, Retool, insert, each only once the one before
\* it has returned or thrown; no two are outstanding together.
C10_StrictlySequential ==
    \A r \in AllRuns :
        /\ IsPrefix(r.ops, NetworkOps)
        /\ Cardinality(r.out) <= 1
        /\ r.out # {} => r.out = {r.ops[Len(r.ops)]} /\ r.pc = r.ops[Len(r.ops)]
        /\ Issued(r, "list") => r.uploadRes # "none"
        /\ Issued(r, "make") => r.checkRes # "none"
        /\ Issued(r, "retool") => r.makeRes # "none"
        /\ Issued(r, "insert") => r.retoolRes # "none"

C10_Witness ==
    \E r \in InFlight : r.pc = "insert" /\ r.ops = NetworkOps /\ r.out = {"insert"}

\* C11: within one submission no network operation is issued twice, whatever
\* its outcome; a submission that ended in success issued each of the five
\* exactly once and added exactly one row; one that did not added none.
C11_EachOperationAtMostOnce ==
    \A r \in AllRuns :
        /\ \A i, j \in DOMAIN r.ops : r.ops[i] = r.ops[j] => i = j
        /\ r.result = "success" =>
                /\ Len(r.ops) = Len(NetworkOps)
                /\ \A i \in DOMAIN NetworkOps : Issued(r, NetworkOps[i])
                /\ r.inserted = 1
                /\ InsertRow(variant, r.data, r.supportLetterUrl) \in db
        /\ r.result # "success" => r.inserted = 0
        /\ r.pc = "done" => r.out = {}

C11_Witness ==
    /\ last.result = "success"
    /\ last.ops = NetworkOps
    /\ last.makeRes = "failed"
    /\ last.retoolRes = "failed"
    /\ last.inserted = 1

\* C12: the attachment rule accepts a value exactly when a first file is
\* present, is a File, is at most 5*1024*1024 (App) or 25*1024*1024 (Form)
\* bytes and is of type application/pdf, image/jpeg or image/png: once the
\* resolver has answered, supportLetter is among the errors exactly when one
\* of these fails, and the handler runs only when none does.
C12_AttachmentRule ==
    \A r \in AllRuns :
        r.pc \notin {"idle", "validating"} =>
            LET files == r.data.supportLetter
                ceiling == IF variant = "App" THEN 5242880 ELSE 26214400
                accepted ==
                    /\ files # <<>>
                    /\ files[1].isFile
                    /\ files[1].size <= ceiling
                    /\ files[1].type \in {"application/pdf", "image/jpeg", "image/png"}
            IN  /\ accepted <=> "supportLetter" \notin formSchema(variant, r.data)
                /\ ~accepted => r.result = "invalid" /\ "supportLetter" \in r.errors
                /\ r.result # "invalid" => accepted
                /\ (files # <<>> /\ files[1].type = "text/plain") => ~accepted
                /\ (files # <<>> /\ files[1].size = ceiling + 1) => ~accepted

\* A file of exactly the ceiling size went through validation and the handler
\* ran on it to the end
C12_Witness ==
    /\ last.pc = "done"
    /\ last.result = "success"
    /\ last.data.supportLetter[1].size = MAX_FILE_SIZE(variant)

\* The fields the payload and the inserted row have in common
C13_SharedFields ==
    {"applicant_name", "mailing_address", "email", "phone_number",
     "date_requested", "funds_usage", "previous_grant", "previous_grant_usage",
     "verify_information"}

\* C13: in every submission the two webhook bodies are the same; the payload
\* holds the draft's values, the address concatenated and the two checkboxes
\* as booleans; its file_url is the public URL of the object this submission
\* uploaded; and the row a successful submission inserted agrees with the
\* payload on every shared field and carries that URL.
C13_PayloadAndRowAgree ==
    \A r \in AllRuns :
        Issued(r, "make") =>
            LET payload == FormPayload(variant, r.data, r.supportLetterUrl)
                d == r.data
            IN  /\ RetoolBody(variant, r) = MakeBody(variant, r)
                /\ \A k \in C13_SharedFields \ {"previous_grant_usage"} :
                        k \in DOMAIN MakeBody(variant, r)
                /\ MakeBody(variant, r).support_letter = payload.support_letter
                /\ payload.applicant_name = d.applicantName
                /\ payload.mailing_address =
                        d.street \o ", " \o d.city \o ", " \o d.province \o " " \o d.postalCode
                /\ payload.email = d.email
                /\ payload.phone_number = d.phoneNumber
                /\ payload.date_requested = d.dateGrantRequested
                /\ payload.funds_usage = d.fundsUsage
                /\ payload.previous_grant \in BOOLEAN
                /\ payload.previous_grant = d.previousGrant
                /\ payload.verify_information = TRUE
                /\ payload.previous_grant_usage = d.previousGrantUsage
                /\ payload.support_letter.file_url = getPublicUrl(r.fileName)
                /\ r.fileName \in DOMAIN storage
                /\ r.result = "success" =>
                        \E row \in db :
                            /\ \A k \in C13_SharedFields : row[k] = payload[k]
                            /\ row.support_letter_url = payload.support_letter.file_url

C13_Witness ==
    /\ last.result = "success"
    /\ last.data.previousGrant
    /\ last.data.previousGrantUsage = "paid for travel in 2023"
    /\ last.makeRes = "ok"
    /\ last.retoolRes = "ok"
    /\ \E row \in db : row.support_letter_url = getPublicUrl(last.fileName)

\* The policies of that name on storage.objects
C14_UploadPolicies ==
    {q \in catalog.policies : q.table = "storage.objects" /\ q.name = UploadPolicyName}

\* C14 as claimed: once both migrations are applied the upload policy exists
\* exactly once, and an insert into storage.objects is permitted exactly for
\* an authenticated caller uploading to support-letters into the folder named
\* by their own user id.
C14_Claimed_OwnFolderOnly ==
    (catalog.step = Len(Migrations) /\ probe.at = Len(Migrations)
        /\ probe.verdict # "none") =>
        /\ Cardinality(C14_UploadPolicies) = 1
        /\ probe.verdict = "permitted" <=>
                /\ probe.req.caller.role = "authenticated"
                /\ probe.req.bucket = "support-letters"
                /\ Len(probe.req.name) >= 2
                /\ probe.req.name[1] = probe.req.caller.uid

\* C15 as claimed: when the listing returns without error and the name just
\* uploaded is not among the names it returned, the submission ends as an
\* upload failure and issues no webhook call and no insert.
C15_Claimed_ExactNameVerified ==
    \A r \in AllRuns :
        (r.checkRes \in {"found", "empty"} /\ r.fileName \notin r.checkData) =>
            /\ r.pc = "done"
            /\ r.result = "failed"
            /\ r.caught = UploadFailedMessage
            /\ ~Issued(r, "make")
            /\ ~Issued(r, "insert")

\* The object a row's support_letter_url points to
C20_ObjectOf(row) ==
    SubSeq(row.support_letter_url, Len(PublicUrlPrefix) + 1, Len(row.support_letter_url))

\* C20 as claimed: no step changes the content of an object that a row
\* already in the table points to.
C20_Claimed_OverwriteBenign ==
    [][\A row \in db :
            C20_ObjectOf(row) \in DOMAIN storage =>
                storage'[C20_ObjectOf(row)] = storage[C20_ObjectOf(row)]]_vars

\* C16 as claimed, in a form that does not need to know which of two
\* overlapping submissions started last.  Take a step in which a submission
\* fails while isSubmitting is false, the submission that ended before it
\* failed too, with another message, and that message is in the slot.  The
\* flag being false, the earlier failure came while this submission was in
\* flight and no submission has started since, so the most recent submission
\* is the same before and after the step.  If the claim held, the slot would
\* hold that submission's message (or null while it is in flight) in both
\* states; it holds two different messages, neither of them null.  So the
\* claim says that no such step exists.
C16_Claimed_LastErrorWins ==
    [][~ \E r \in InFlight :
            /\ r.pc \notin {"idle", "validating"}
            /\ runs' = Remove(r)
            /\ ~isSubmitting
            /\ last.result = "failed"
            /\ submitError = last.caught
            /\ last'.result = "failed"
            /\ submitError' = last'.caught
            /\ last'.caught # last.caught]_vars

\* C17 as claimed (its safety part): from the start of onSubmit to the end
\* of its finally block isSubmitting is true, whatever network step the
\* submission is at.
C17_Claimed_FlagHeldWhileInFlight ==
    \A r \in InFlight : r.pc \notin {"idle", "validating"} => isSubmitting

\* C18 as claimed: the step that ends a submission in success leaves the
\* form without the values that were submitted; and resetForm leaves
\* submitSuccess false, submitError null and the draft empty.
C18_Claimed_DraftDestroyedOnSuccess ==
    [][/\ \A r \in InFlight :
            (EndsAt(r, "insert") /\ last'.result = "success" /\ draft = r.data)
                => draft' # r.data
       /\ (submitSuccess /\ ~submitSuccess') =>
            /\ draft' = EmptyDraft(variant)
            /\ submitError' = Null]_vars

\* C19 as claimed: the success state and an error are never there together.
C19_Claimed_NeverSuccessAndError == ~(submitSuccess /\ submitError # Null)

\* Every call that is awaited is answered in the end, and so is the resolver
NetworkAnswers ==
    /\ WF_vars(DoValidate)
    /\ WF_vars(DoUploadReturns)
    /\ WF_vars(DoListReturns)
    /\ WF_vars(DoMakeReturns)
    /\ WF_vars(DoMakeTextReturns)
    /\ WF_vars(DoRetoolReturns)
    /\ WF_vars(DoRetoolTextReturns)
    /\ WF_vars(DoInsertReturns)

SpecFair == Spec /\ NetworkAnswers

\* The termination part of C17: when every call is answered, isSubmitting
\* does not stay true for ever.  (Without NetworkAnswers a submission may
\* stay at an awaited call for ever: no other action moves it.)
C17_Terminates == isSubmitting ~> ~isSubmitting

\* The columns of grant_applications in the catalog
C21_Columns ==
    {x.column : x \in {y \in catalog.columns : y.table = "grant_applications"}}

\* C21 as claimed: every key of a row the handler sends to the insert is a
\* column of grant_applications as the migrations declare it, and every
\* column that is NOT NULL and has no default is among the keys.
C21_Claimed_RowFitsTable ==
    \A r \in AllRuns :
        Issued(r, "insert") =>
            LET keys == InsertKeys(variant,
                                   InsertRow(variant, r.data, r.supportLetterUrl))
            IN  /\ keys \subseteq {c.name : c \in C21_Columns}
                /\ {c.name : c \in {x \in C21_Columns : x.notNull /\ ~x.hasDefault}}
                        \subseteq keys

===========================================================================
